---- MODULE Spec2Model ----
(***************************************************************************)
(* Model of manifest-verifier/verify_manifest.py.                          *)
(*                                                                         *)
(* Strings are sequences of lexemes: "(" , ")" , " " and words (a word is  *)
(* a maximal run of characters that are neither a space nor a              *)
(* parenthesis).  split, strip, indexing and lower are computed on that    *)
(* representation as Python computes them on characters.                   *)
(*                                                                         *)
(* A call result is a record [count, out, exc]: the returned error count,  *)
(* the lines written through print_error / print_warning, and the          *)
(* exception that left the function ("none" when it returned).             *)
(***************************************************************************)
EXTENDS Integers, Sequences, FiniteSets, TLC

VARIABLES
    pc,           \* position of the program
    ignore_spdx,  \* args.ignore_spdx
    spdx_data,    \* the catalog: [licenses, exceptions], sets of identifiers
    cur_license,  \* the tag given to check_license_tag
    frame,        \* locals of the running check_license_tag
    dep,          \* the dependency stanza given to validate_repository
    disk,         \* the file system and git metadata under manifest_dir
    result,       \* result of the function under check
    manifest,     \* the parsed manifest
    ignore_paths, \* args.ignore_paths
    main          \* locals of main / validate_manifest

vars == <<pc, ignore_spdx, spdx_data, cur_license, frame, dep, disk, result,
          manifest, ignore_paths, main>>

\* ---------------------------------------------------------------- bounds

MaxTokens == 3

MaxTerms == 2

MaxDeps == 2

\* ---------------------------------------------------------------- strings

Idle == [idle |-> TRUE]

str(w) == <<w>>

RECURSIVE Join(_)
Join(toks) ==
    IF Len(toks) = 0 THEN <<>>
    ELSE IF Len(toks) = 1 THEN toks[1]
    ELSE toks[1] \o <<" ">> \o Join(Tail(toks))

\* str.split(" "): cut at every single space; consecutive spaces and the
\* empty string give empty tokens ("".split(" ") == [""]).
RECURSIVE split(_)
split(s) ==
    IF \A k \in 1..Len(s) : s[k] # " " THEN <<s>>
    ELSE LET k == CHOOSE j \in 1..Len(s) :
                     s[j] = " " /\ \A m \in 1..(j - 1) : s[m] # " "
         IN  <<SubSeq(s, 1, k - 1)>> \o split(SubSeq(s, k + 1, Len(s)))

\* str.strip("()"): drop every leading and trailing parenthesis.
RECURSIVE strip(_)
strip(t) ==
    IF Len(t) = 0 THEN t
    ELSE IF t[1] \in {"(", ")"} THEN strip(Tail(t))
    ELSE IF t[Len(t)] \in {"(", ")"} THEN strip(SubSeq(t, 1, Len(t) - 1))
    ELSE t

lowerWord(w) ==
    CASE w = "V1"    -> "v1"
      [] w = "GIT@X" -> "git@x"
      [] w = "AND"   -> "and"
      [] w = "And"   -> "and"
      [] w = "OR"    -> "or"
      [] w = "WITH"  -> "with"
      [] w = "With"  -> "with"
      [] OTHER       -> w

\* str.lower()
lower(s) == [k \in 1..Len(s) |-> lowerWord(s[k])]

\* ---------------------------------------------------------------- output

print_error(indent_level, error_str, arg) ==
    [level |-> "ERROR", indent |-> indent_level, text |-> error_str, arg |-> arg]

print_warning(indent_level, warn_str) ==
    [level |-> "WARN", indent |-> indent_level, text |-> warn_str, arg |-> <<>>]

Returned(n, out) == [count |-> n, out |-> out, exc |-> "none"]

Raised(e, out) == [count |-> 0, out |-> out, exc |-> e]

\* ---------------------------------------------------------------- catalog

FetchedLicenses == {str("MIT")}

FetchedExceptions == {str("E")}

load_spdx_data(ignored) ==
    [licenses   |-> FetchedLicenses \cup ignored,
     exceptions |-> FetchedExceptions]

\* ---------------------------------------------------------------- check_license_tag

AndOrKeywords == {str("and"), str("AND"), str("or"), str("OR")}

WithKeywords == {str("with"), str("WITH")}

\* The locals on entry to the loop.
TagEnter(tag) ==
    [licenses               |-> split(tag),
     i                      |-> 0,
     license_exception_flag |-> FALSE,
     paren_depth            |-> 0,
     last_paren_depth       |-> 0,
     error_count            |-> 0,
     checked                |-> <<>>,
     out                    |-> <<>>,
     exc                    |-> "none"]

\* Variant: the keywords matched after lower().
TagBranchAnyCase(tok, flag) ==
    IF lower(tok) \in {str("and"), str("or")} THEN "skip"
    ELSE IF lower(tok) = str("with") THEN "with"
    ELSE IF flag THEN "exception"
    ELSE "license"

\* Which branch of the if/elif chain the token takes.
TagBranch(tok, flag) ==
    IF tok \in AndOrKeywords THEN "skip"
    ELSE IF tok \in WithKeywords THEN "with"
    ELSE IF flag THEN "exception"
    ELSE "license"

\* Variant: the test without its "not".
InvalidIdInverted(tok, ids) == strip(tok) \in ids

\* "not licenses[i].strip("()") in ids"
InvalidId(tok, ids) == strip(tok) \notin ids

\* Variant: "<" for "<=".
FlagClearedStrict(depth, last) == depth < last

\* The loop's exit test of the flag after an exception token.
FlagCleared(depth, last) == depth <= last

\* One iteration of the loop, on token f.licenses[f.i + 1].
TagStep(spdx, tag, f) ==
    LET tok    == f.licenses[f.i + 1]
        depth  == IF tok[1] = "(" THEN f.paren_depth + 1 ELSE f.paren_depth
        branch == TagBranch(tok, f.license_exception_flag)
        bad    == \/ branch = "exception" /\ InvalidId(tok, spdx.exceptions)
                  \/ branch = "license" /\ InvalidId(tok, spdx.licenses)
        msg    == IF branch = "exception"
                  THEN print_error(0, "Invalid license exception id", tok)
                  ELSE print_error(0, "Invalid license id", tok)
        flag   == CASE branch = "with" -> TRUE
                    [] branch = "exception" ->
                         IF FlagCleared(depth, f.last_paren_depth)
                         THEN FALSE ELSE f.license_exception_flag
                    [] OTHER -> f.license_exception_flag
    IN  IF Len(tok) = 0
        THEN [f EXCEPT !.exc = "IndexError"]
        ELSE [f EXCEPT
                !.i = f.i + 1,
                !.license_exception_flag = flag,
                !.paren_depth = IF tok[Len(tok)] = ")" THEN depth - 1 ELSE depth,
                !.last_paren_depth = depth,
                !.error_count = IF bad THEN f.error_count + 1 ELSE f.error_count,
                !.checked = Append(f.checked, branch),
                !.out = IF bad THEN Append(f.out, msg) ELSE f.out]

TagRunning(f) == f.exc = "none" /\ f.i < Len(f.licenses)

RECURSIVE TagLoop(_, _, _)
TagLoop(spdx, tag, f) ==
    IF TagRunning(f) THEN TagLoop(spdx, tag, TagStep(spdx, tag, f)) ELSE f

check_license_tag(spdx, tag) ==
    LET f == TagLoop(spdx, tag, TagEnter(tag))
    IN  IF f.exc = "none" THEN Returned(f.error_count, f.out)
        ELSE Raised(f.exc, f.out)

\* ---------------------------------------------------------------- git and files

Has(stanza, key) == key \in DOMAIN stanza

manifest_dir == <<"/repo">>

\* os.path.join(manifest_dir, path)
join(dir, path) == dir \o path

\* os.path.relpath(abspath, root) of a path below root
relpath(abspath, root) == SubSeq(abspath, Len(root) + 1, Len(abspath))

\* os.path.exists
exists(d, abspath) == abspath \in d.exists

\* submodule.commit(rev): the commit a ref names; gitdb.exc.BadName otherwise.
Resolves(sub, rev) == rev \in DOMAIN sub.refs

\* ---------------------------------------------------------------- validate_submodule_repo

\* "not submodule.remotes.origin.url.lower() == repo["url"].lower()"
UrlMismatch(actual, declared) == lower(actual) # lower(declared)

\* manifest_hash after the two try blocks, were the fallback to complete.
ManifestHash(sub, version) ==
    IF Resolves(sub, version) THEN sub.refs[version]
    ELSE IF Resolves(sub, lower(version)) THEN sub.refs[lower(version)]
    ELSE "unknown"

\* Variant: the comparison without its "not".
RevisionMismatchInverted(head, hash) == head = hash

\* "not submodule.head.commit.hexsha == manifest_hash"
RevisionMismatch(head, hash) == head # hash

validate_submodule_repo(d, dk) ==
    LET repo == d.repository
        path == join(manifest_dir, repo.path)
    IN  IF path \notin DOMAIN dk.repos
        THEN Raised("InvalidGitRepositoryError", <<>>)
        ELSE IF ~Has(repo, "url") THEN Raised("KeyError", <<>>)
        ELSE
        LET sub  == dk.repos[path]
            urlE == UrlMismatch(sub.origin_url, repo.url)
            out1 == IF urlE
                    THEN <<print_error(1, "Repository url mismatch between manifest and submodule.", <<>>)>>
                    ELSE <<>>
        IN  IF ~Has(d, "version") THEN Raised("KeyError", out1)
            ELSE
            LET literal == Resolves(sub, d.version)
                out2 == IF literal THEN out1
                        ELSE Append(out1, print_error(1, "Manifest version is not a valid tag or branch in the submodule.", <<>>))
                hash == ManifestHash(sub, d.version)
                revE == RevisionMismatch(sub.head, hash)
                out3 == IF revE
                        THEN Append(out2, print_error(1, "Revision mismatch between submodule and manifest version.", <<>>))
                        ELSE out2
            IN  \* print_warning is called with one argument: TypeError
                IF ~literal /\ Resolves(sub, lower(d.version))
                THEN Raised("TypeError", out2)
                ELSE Returned((IF urlE THEN 1 ELSE 0) + (IF revE THEN 1 ELSE 0), out3)

\* ---------------------------------------------------------------- validate_repository

validate_repository(d, dk) ==
    LET repo == d.repository
        out1 == IF ~Has(repo, "type")
                THEN <<print_error(1, "type field not found in repository.", <<>>)>>
                ELSE <<>>
    IN  IF ~Has(repo, "type") THEN Raised("KeyError", out1)
        ELSE
        LET typeE == repo.type # str("git")
            urlE  == ~Has(repo, "url")
            out2  == IF typeE
                     THEN Append(out1, print_error(1, "type field is not set to git in repository", <<>>))
                     ELSE out1
            out3  == IF urlE
                     THEN Append(out2, print_error(1, "url field not found in repository", <<>>))
                     ELSE out2
            n     == (IF typeE THEN 1 ELSE 0) + (IF urlE THEN 1 ELSE 0)
        IN  IF ~Has(repo, "path") THEN Returned(n, out3)
            ELSE IF ~exists(dk, join(manifest_dir, repo.path))
            THEN Returned(n + 1, Append(out3, print_error(1, "Relative path does not exist", repo.path)))
            ELSE LET r == validate_submodule_repo(d, dk)
                 IN  IF r.exc = "none" THEN Returned(n + r.count, out3 \o r.out)
                     ELSE Raised(r.exc, out3 \o r.out)

\* ---------------------------------------------------------------- SpecRepo

\* Every record with fields S, each field k drawn from F[k].
Stanzas(F) ==
    UNION {{f \in [S -> UNION {F[k] : k \in S}] : \A k \in S : f[k] \in F[k]} :
           S \in SUBSET DOMAIN F}

Commits == {"c1", "c2"}

Versions == {str("V1"), str("v1"), str("main")}

Urls == {str("git@x"), str("GIT@X"), str("git@y")}

RepoStanzas ==
    Stanzas([type |-> {str("git"), str("svn")},
             url  |-> Urls,
             path |-> {str("libA"), str("libD"), str("libZ")}])

DepStanzas ==
    {[repository |-> r] : r \in RepoStanzas}
        \cup {[version |-> v, repository |-> r] : v \in Versions, r \in RepoStanzas}

\* libA is a submodule checkout, libD a plain directory, libZ does not exist.
RepoDisks ==
    {[exists     |-> {join(manifest_dir, str("libA")), join(manifest_dir, str("libD"))},
      repos      |-> [p \in {join(manifest_dir, str("libA"))} |->
                         [origin_url |-> u, refs |-> refs, head |-> h]],
      submodules |-> <<join(manifest_dir, str("libA"))>>] :
        u \in {str("git@x")}, h \in Commits,
        refs \in UNION {[R -> Commits] : R \in SUBSET {str("V1"), str("v1")}}}

InitRepo ==
    /\ pc = "repo_call"
    /\ dep \in DepStanzas
    /\ disk \in RepoDisks
    /\ result = Idle
    /\ ignore_spdx = {} /\ spdx_data = Idle /\ cur_license = <<>> /\ frame = Idle
    /\ manifest = Idle /\ ignore_paths = {} /\ main = Idle

ValidateRepository ==
    /\ pc = "repo_call"
    /\ result' = validate_repository(dep, disk)
    /\ pc' = "repo_done"
    /\ UNCHANGED <<ignore_spdx, spdx_data, cur_license, frame, dep, disk,
                   manifest, ignore_paths, main>>

\* The call at line 134, under its guards.
ValidateSubmoduleRepo ==
    /\ pc = "repo_call"
    /\ Has(dep.repository, "path")
    /\ exists(disk, join(manifest_dir, dep.repository.path))
    /\ result' = validate_submodule_repo(dep, disk)
    /\ pc' = "submodule_done"
    /\ UNCHANGED <<ignore_spdx, spdx_data, cur_license, frame, dep, disk,
                   manifest, ignore_paths, main>>

NextRepo == ValidateRepository \/ ValidateSubmoduleRepo

SpecRepo == InitRepo /\ [][NextRepo]_vars

\* The submodule validate_submodule_repo opened, and the case the claims
\* are about: it could be opened, and the stanza has a url and a version.
Submodule == disk.repos[join(manifest_dir, dep.repository.path)]

SubmoduleCase ==
    /\ pc = "submodule_done"
    /\ join(manifest_dir, dep.repository.path) \in DOMAIN disk.repos
    /\ Has(dep.repository, "url") /\ Has(dep, "version")

UrlMatches == lower(Submodule.origin_url) = lower(dep.repository.url)

\* C4: when only the lowercased version resolves, the operation completes
\* with a warning and no error for the resolution; with HEAD at that commit
\* and a matching URL it returns 0.
C4_LowercaseFallbackWarns ==
    (/\ SubmoduleCase
     /\ ~Resolves(Submodule, dep.version) /\ Resolves(Submodule, lower(dep.version)))
        => /\ result.exc = "none"
           /\ \E k \in 1..Len(result.out) : result.out[k].level = "WARN"
           /\ (UrlMatches /\ Submodule.refs[lower(dep.version)] = Submodule.head)
                  => result.count = 0

\* C5: with a matching URL, a version that resolves to the HEAD commit gives
\* 0 errors and one that resolves to another commit exactly 1; when neither
\* the literal nor the lowercased version resolves the hash is "unknown",
\* differs from HEAD, and exactly 1 error is counted.
C5_RevisionCheck ==
    (SubmoduleCase /\ UrlMatches)
        => /\ Resolves(Submodule, dep.version)
                => result = Returned(
                       IF Submodule.refs[dep.version] = Submodule.head THEN 0 ELSE 1,
                       IF Submodule.refs[dep.version] = Submodule.head THEN <<>>
                       ELSE <<print_error(1, "Revision mismatch between submodule and manifest version.", <<>>)>>)
           /\ (~Resolves(Submodule, dep.version) /\ ~Resolves(Submodule, lower(dep.version)))
                => /\ ManifestHash(Submodule, dep.version) = "unknown"
                   /\ Submodule.head # "unknown"
                   /\ result.exc = "none" /\ result.count = 1
                   /\ result.out[Len(result.out)].text
                          = "Revision mismatch between submodule and manifest version."

C5_Witness ==
    /\ SubmoduleCase /\ UrlMatches
    /\ dep.repository.url # Submodule.origin_url
    /\ ~Resolves(Submodule, dep.version) /\ ~Resolves(Submodule, lower(dep.version))
    /\ result.count = 1

\* ---------------------------------------------------------------- validate_dependency

validate_dependency(dependency, spdx) ==
    LET nameE == ~Has(dependency, "name")
        verE  == ~Has(dependency, "version")
        out1  == IF nameE
                 THEN <<print_error(0, "name field not found in dependency stanza.", <<>>)>>
                 ELSE <<>>
        out2  == IF verE
                 THEN Append(out1, print_error(0, "version field not found in dependency stanza.", <<>>))
                 ELSE out1
        n     == (IF nameE THEN 1 ELSE 0) + (IF verE THEN 1 ELSE 0)
    IN  IF ~Has(dependency, "license")
        THEN Returned(n + 1, Append(out2, print_error(1, "license field not found dependency stanzay.", <<>>)))
        ELSE LET r == check_license_tag(spdx, dependency.license)
             IN  IF r.exc = "none" THEN Returned(n + r.count, out2 \o r.out)
                 ELSE Raised(r.exc, out2 \o r.out)

\* ---------------------------------------------------------------- submodule reconciliation

RECURSIVE RepoPaths(_)
RepoPaths(dependencies) ==
    IF Len(dependencies) = 0 THEN <<>>
    ELSE LET d == Head(dependencies)
         IN  (IF Has(d, "repository") /\ Has(d.repository, "path")
              THEN <<d.repository.path>> ELSE <<>>)
             \o RepoPaths(Tail(dependencies))

list_repo_paths_in_manifest(m) ==
    IF Has(m, "dependencies") THEN RepoPaths(m.dependencies) ELSE <<>>

InList(x, list) == \E k \in 1..Len(list) : list[k] = x

\* Variant: without the test against ignored_paths.
get_all_submodules_unfiltered(dk, repo_root_path, ignored_paths) ==
    [k \in 1..Len(dk.submodules) |-> relpath(dk.submodules[k], repo_root_path)]

get_all_submodules(dk, repo_root_path, ignored_paths) ==
    LET paths == [k \in 1..Len(dk.submodules) |->
                     relpath(dk.submodules[k], repo_root_path)]
        Kept(path) == ~InList(path, ignored_paths)
    IN  SelectSeq(paths, Kept)

check_for_missing_submodules(manifest_repos, git_submodules) ==
    LET Missing(submodule) == ~InList(submodule, manifest_repos)
        missing == SelectSeq(git_submodules, Missing)
    IN  Returned(Len(missing),
                 [k \in 1..Len(missing) |->
                     print_error(0, "Git submodule was not found in the manifest.", missing[k])])

\* ---------------------------------------------------------------- main, validate_manifest

manifest_path == join(manifest_dir, str("manifest.yml"))

\* sys.exit(n) of an integer: the status is n modulo 256 (-1 is 255).
ExitStatusInt(n) == n % 256

\* sys.exit(b) of a bool: True is 1, False is 0.
ExitStatus(b) == IF b THEN 1 ELSE 0

\* An exception no frame catches: traceback, status 1.
UncaughtStatus == 1

MainStart ==
    /\ pc = "main"
    /\ IF ~exists(disk, manifest_path)
       THEN /\ main' = [main EXCEPT
                          !.out = Append(@, print_error(0, "Error: no file found at", manifest_path)),
                          !.exit_status = <<ExitStatusInt(-1)>>]
            /\ pc' = "exited"
       ELSE /\ main' = main
            /\ pc' = "ignore_check"
    /\ UNCHANGED <<ignore_spdx, spdx_data, cur_license, frame, dep, disk, result,
                   manifest, ignore_paths>>

\* Lines 322-324: an ignored path that does not exist is printed, not counted.
CheckIgnoredPaths ==
    /\ pc = "ignore_check"
    /\ LET Absent(p) == ~exists(disk, join(manifest_dir, p))
           absent == SelectSeq(ignore_paths, Absent)
       IN  main' = [main EXCEPT !.out = @ \o
                       [k \in 1..Len(absent) |->
                           print_error(0, "Ignored path was not found.", absent[k])]]
    /\ pc' = "load_spdx"
    /\ UNCHANGED <<ignore_spdx, spdx_data, cur_license, frame, dep, disk, result,
                   manifest, ignore_paths>>

LoadSpdxData ==
    /\ pc = "load_spdx"
    /\ spdx_data' = load_spdx_data(ignore_spdx)
    /\ pc' = "root"
    /\ UNCHANGED <<ignore_spdx, cur_license, frame, dep, disk, result, manifest,
                   ignore_paths, main>>

\* Lines 269-291: the root fields and the root license tag.
ValidateRoot ==
    /\ pc = "root"
    /\ LET Missing(key, text) ==
               IF Has(manifest, key) THEN <<>> ELSE <<print_error(0, text, <<>>)>>
           outF == Missing("name", "name field not found in manifest root.")
                   \o Missing("version", "version field not found in manifest root.")
                   \o Missing("description", "version field not found in manifest root.")
                   \o Missing("license", "version field not found in manifest root.")
           r    == IF Has(manifest, "license")
                   THEN check_license_tag(spdx_data, manifest.license)
                   ELSE Returned(0, <<>>)
       IN  /\ main' = [main EXCEPT
                         !.error_count = @ + Len(outF) + r.count,
                         !.out = @ \o outF \o r.out,
                         !.exc = r.exc]
           /\ pc' = IF r.exc # "none" THEN "raised"
                    ELSE IF Has(manifest, "dependencies") THEN "deps" ELSE "reconcile"
    /\ UNCHANGED <<ignore_spdx, spdx_data, cur_license, frame, dep, disk, result,
                   manifest, ignore_paths>>

\* Lines 295-299: one iteration of the loop over the dependencies.
ValidateDep ==
    /\ pc = "deps"
    /\ main.idx < Len(manifest.dependencies)
    /\ LET d  == manifest.dependencies[main.idx + 1]
           r1 == validate_dependency(d, spdx_data)
           r2 == IF r1.exc = "none" /\ Has(d, "repository")
                 THEN validate_repository(d, disk)
                 ELSE Returned(0, <<>>)
           e  == IF r1.exc # "none" THEN r1.exc ELSE r2.exc
       IN  /\ main' = [main EXCEPT
                         !.idx = @ + 1,
                         !.error_count = @ + r1.count + r2.count,
                         !.out = @ \o r1.out \o r2.out,
                         !.exc = e]
           /\ pc' = IF e # "none" THEN "raised" ELSE "deps"
    /\ UNCHANGED <<ignore_spdx, spdx_data, cur_license, frame, dep, disk, result,
                   manifest, ignore_paths>>

DepsDone ==
    /\ pc = "deps"
    /\ main.idx = Len(manifest.dependencies)
    /\ pc' = "reconcile"
    /\ UNCHANGED <<ignore_spdx, spdx_data, cur_license, frame, dep, disk, result,
                   manifest, ignore_paths, main>>

\* Lines 301-306: the undeclared-submodule check, then the return.
Reconcile ==
    /\ pc = "reconcile"
    /\ LET repo_paths == list_repo_paths_in_manifest(manifest)
           submodule_paths == get_all_submodules(disk, manifest_dir, ignore_paths)
           r == check_for_missing_submodules(repo_paths, submodule_paths)
       IN  /\ result' = r
           /\ main' = [main EXCEPT
                         !.error_count = @ + r.count,
                         !.out = @ \o r.out,
                         !.walked = TRUE]
    /\ pc' = "returned"
    /\ UNCHANGED <<ignore_spdx, spdx_data, cur_license, frame, dep, disk,
                   manifest, ignore_paths>>

\* Lines 332-334.
Exit ==
    /\ pc = "returned"
    /\ main' = [main EXCEPT !.exit_status = <<ExitStatus(main.error_count > 0)>>]
    /\ pc' = "exited"
    /\ UNCHANGED <<ignore_spdx, spdx_data, cur_license, frame, dep, disk, result,
                   manifest, ignore_paths>>

\* The exception leaves validate_manifest and main.
Crash ==
    /\ pc = "raised"
    /\ main' = [main EXCEPT !.exit_status = <<UncaughtStatus>>]
    /\ pc' = "exited"
    /\ UNCHANGED <<ignore_spdx, spdx_data, cur_license, frame, dep, disk, result,
                   manifest, ignore_paths>>

Next ==
    \/ MainStart \/ CheckIgnoredPaths \/ LoadSpdxData \/ ValidateRoot
    \/ ValidateDep \/ DepsDone \/ Reconcile \/ Exit \/ Crash

\* ---- inputs

GoodRepo(path) == [type |-> str("git"), url |-> str("git@x"), path |-> path]

Dependencies ==
    {[name |-> str("a"), version |-> str("v1"), license |-> str("MIT"),
      repository |-> GoodRepo(str("libA"))],
     [name |-> str("b"), version |-> str("main"), license |-> str("Foo"),
      repository |-> GoodRepo(str("libB"))],
     [name |-> str("c"), version |-> str("v1"), license |-> str("MIT")],
     [version |-> str("v1"),
      repository |-> [type |-> str("svn"), path |-> str("libZ")]],
     [name |-> str("a"), version |-> str("v1"), license |-> str("MIT"),
      repository |-> [url |-> str("git@x"), path |-> str("libA")]],
     [name |-> str("a"), version |-> str("v1"), license |-> str("MIT"),
      repository |-> [type |-> str("git"), path |-> str("libA")]],
     [name |-> str("a"), license |-> str("MIT"),
      repository |-> GoodRepo(str("libA"))],
     [name |-> str("a"), version |-> str("V1"), license |-> str("MIT"),
      repository |-> GoodRepo(str("libA"))]}

DependencyLists == UNION {[1..n -> Dependencies] : n \in 0..MaxDeps}

RootFieldSets ==
    {{"name", "version", "description", "license"},
     {"name", "description", "license"},
     {"version"}}

RootLicenses == {str("MIT"), Join(<<str("MIT"), str("And"), str("Foo")>>), <<>>}

Manifests ==
    {[k \in S \cup D |->
         CASE k = "dependencies" -> deps
           [] k = "license"      -> lic
           [] OTHER              -> str("x")] :
        S \in RootFieldSets, D \in {{}, {"dependencies"}},
        lic \in RootLicenses, deps \in DependencyLists}

Checkout(head) ==
    [origin_url |-> str("git@x"),
     refs       |-> [r \in {str("v1"), str("main")} |-> IF r = str("v1") THEN "c1" ELSE "c2"],
     head       |-> head]

\* libA and libB are submodule checkouts at c1; libC is one more submodule
\* of the repository on the second disk; the third has no manifest file.
MainDisks ==
    {[exists     |-> {join(manifest_dir, str(p)) : p \in {"libA", "libB", "libC"} \cup files},
      repos      |-> [p \in {join(manifest_dir, str(q)) : q \in {"libA", "libB", "libC"}} |->
                         Checkout("c1")],
      submodules |-> [k \in 1..n |-> join(manifest_dir,
                         str(CASE k = 1 -> "libA" [] k = 2 -> "libB" [] OTHER -> "libC"))]] :
        n \in {2, 3}, files \in {{"manifest.yml"}, {}}}

IgnorePathArgs == {<<>>, <<str("libC")>>, <<str("libB"), str("libQ")>>}

Init ==
    /\ pc = "main"
    /\ ignore_spdx = {str("Custom")}
    /\ ignore_paths \in IgnorePathArgs
    /\ manifest \in Manifests
    /\ disk \in MainDisks
    /\ main = [error_count |-> 0, idx |-> 0, out |-> <<>>, exc |-> "none",
               walked |-> FALSE, exit_status |-> <<>>]
    /\ spdx_data = Idle /\ cur_license = <<>> /\ frame = Idle
    /\ dep = Idle /\ result = Idle

Spec == Init /\ [][Next]_vars

\* ---------------------------------------------------------------- claims on Spec

\* C1: validate_manifest never raises on a validation failure: whatever
\* required fields are missing, the walk runs every later check, the
\* undeclared-submodule check included, and returns the total.  (The
\* IndexError of an empty token and the TypeError of the lowercase fallback
\* are the subjects of C10 and C4 and are left out here.)
C1_WalkNeverRaises ==
    (/\ pc = "exited" /\ exists(disk, manifest_path)
     /\ main.exc \notin {"IndexError", "TypeError"})
        => main.exc = "none" /\ main.walked

OnDisk == {relpath(disk.submodules[k], manifest_dir) : k \in 1..Len(disk.submodules)}

Ignored == {ignore_paths[k] : k \in 1..Len(ignore_paths)}

Declared ==
    IF ~Has(manifest, "dependencies") THEN {}
    ELSE {manifest.dependencies[k].repository.path :
             k \in {j \in 1..Len(manifest.dependencies) :
                       /\ Has(manifest.dependencies[j], "repository")
                       /\ Has(manifest.dependencies[j].repository, "path")}}

Undeclared == (OnDisk \ Ignored) \ Declared

\* C6: the undeclared-submodule check reports one error for each on-disk
\* submodule path that is neither ignored nor declared as a repository path,
\* and none for any other path: |(onDisk \ ignored) \ declared| errors.
C6_UndeclaredSubmodules ==
    pc = "returned"
        => /\ result.exc = "none"
           /\ result.count = Cardinality(Undeclared)
           /\ Len(result.out) = Cardinality(Undeclared)
           /\ {result.out[k].arg : k \in 1..Len(result.out)} = Undeclared

C6_Witness ==
    /\ pc = "returned"
    /\ OnDisk = {str("libA"), str("libB"), str("libC")}
    /\ Ignored = {str("libC")}
    /\ Declared = {str("libA")}
    /\ result.count = 1

\* C7: the exit status is decided only after the whole manifest has been
\* walked; it is 1 exactly when the total error count is greater than zero
\* and 0 exactly when it is zero.
C7_ExitStatusFromTotal ==
    (pc = "exited" /\ exists(disk, manifest_path))
        => /\ main.walked
           /\ main.exit_status = <<IF main.error_count > 0 THEN 1 ELSE 0>>

\* ---------------------------------------------------------------- SpecTag

Tokens ==
    {str("MIT"), str("Foo"), str("Custom"), str("E"),
     str("AND"), str("or"), str("And"), str("WITH"), str("with"), str("With"),
     <<"(", "MIT">>, <<"MIT", ")">>, <<"(", "E", ")">>, <<"(", "E">>, <<"E", ")">>,
     <<>>}

TokenSeqs == UNION {[1..n -> Tokens] : n \in 0..MaxTokens}

\* Expressions term (AND|OR term)* of up to MaxTerms terms.
Terms ==
    {<<str("MIT")>>, <<str("Custom")>>,
     <<str("MIT"), str("WITH"), str("E")>>,
     <<str("MIT"), str("WITH"), <<"(", "E", ")">> >>}

RECURSIVE TermSeqs(_)
TermSeqs(n) ==
    IF n = 1 THEN Terms
    ELSE LET shorter == TermSeqs(n - 1)
         IN  shorter \cup
             {e \o <<j>> \o t : e \in shorter, j \in {str("AND"), str("OR")}, t \in Terms}

Tags == {Join(ts) : ts \in TokenSeqs \cup TermSeqs(MaxTerms)}

IgnoreSpdxArgs == {{}, {str("Custom")}}

InitTag ==
    /\ pc = "tag_call"
    /\ ignore_spdx \in IgnoreSpdxArgs
    /\ spdx_data = load_spdx_data(ignore_spdx)
    /\ cur_license \in Tags
    /\ frame = Idle
    /\ dep = Idle /\ disk = Idle /\ result = Idle
    /\ manifest = Idle /\ ignore_paths = {} /\ main = Idle

TagCall ==
    /\ pc = "tag_call"
    /\ frame' = TagEnter(cur_license)
    /\ pc' = "tag_loop"
    /\ UNCHANGED <<ignore_spdx, spdx_data, cur_license, dep, disk, result,
                   manifest, ignore_paths, main>>

TagIterate ==
    /\ pc = "tag_loop"
    /\ TagRunning(frame)
    /\ frame' = TagStep(spdx_data, cur_license, frame)
    /\ UNCHANGED <<pc, ignore_spdx, spdx_data, cur_license, dep, disk, result,
                   manifest, ignore_paths, main>>

TagReturn ==
    /\ pc = "tag_loop"
    /\ ~TagRunning(frame)
    /\ result' = check_license_tag(spdx_data, cur_license)
    /\ pc' = "tag_done"
    /\ UNCHANGED <<ignore_spdx, spdx_data, cur_license, frame, dep, disk,
                   manifest, ignore_paths, main>>

NextTag == TagCall \/ TagIterate \/ TagReturn

SpecTag == InitTag /\ [][NextTag]_vars

\* ---------------------------------------------------------------- claims on SpecTag

Words(t) == \A k \in 1..Len(t) : t[k] \notin {"(", ")", " "}

KeywordAnyCase(tok) == Len(tok) = 1 /\ lower(tok) \in {str("and"), str("or"), str("with")}

\* term (AND|OR term)*, term = license [WITH exception], by position.
RECURSIVE ValidExpr(_, _, _)
ValidExpr(toks, k, expect) ==
    IF k > Len(toks) THEN expect \in {"joinOrWith", "join"}
    ELSE CASE expect = "license" ->
                toks[k] \in FetchedLicenses \cup ignore_spdx
                /\ ValidExpr(toks, k + 1, "joinOrWith")
           [] expect = "exception" ->
                toks[k] \in FetchedExceptions /\ ValidExpr(toks, k + 1, "join")
           [] expect = "joinOrWith" ->
                \/ toks[k] \in {str("AND"), str("OR")} /\ ValidExpr(toks, k + 1, "license")
                \/ toks[k] = str("WITH") /\ ValidExpr(toks, k + 1, "exception")
           [] expect = "join" ->
                toks[k] \in {str("AND"), str("OR")} /\ ValidExpr(toks, k + 1, "license")

\* C2: an expression of catalog licenses joined by AND/OR, each optionally
\* followed by WITH and a catalog exception, gives 0 errors.
C2_ValidExpressionNoErrors ==
    (pc = "tag_done" /\ ValidExpr(split(cur_license), 1, "license"))
        => result = Returned(0, <<>>)

C2_Witness ==
    /\ pc = "tag_done"
    /\ cur_license = Join(<<str("MIT"), str("WITH"), str("E"), str("AND"), str("MIT")>>)
    /\ result = Returned(0, <<>>)

\* C3: a single identifier that is in neither the fetched license list nor
\* the ignore-list gives exactly 1 error, and the error names the identifier.
C3_UnknownIdOneError ==
    (/\ pc = "tag_done"
     /\ Len(cur_license) = 1 /\ Words(cur_license) /\ ~KeywordAnyCase(cur_license)
     /\ cur_license \notin FetchedLicenses \cup ignore_spdx)
        => result = Returned(1, <<print_error(0, "Invalid license id", cur_license)>>)

C3_Witness ==
    /\ pc = "tag_done"
    /\ cur_license = str("Custom") /\ ignore_spdx = {}
    /\ result.count = 1

Processed == IF frame = Idle THEN {} ELSE 1..frame.i

\* C8 as claimed: a keyword in any letter casing is never validated as an
\* identifier, and any casing of WITH sends the next token to the exception set.
C8_KeywordsAnyCase ==
    \A k \in Processed :
        LET tok == frame.licenses[k]
        IN  /\ KeywordAnyCase(tok) => frame.checked[k] \in {"skip", "with"}
            /\ (/\ lower(tok) = str("with") /\ k + 1 \in Processed
                /\ ~KeywordAnyCase(frame.licenses[k + 1]))
                   => frame.checked[k + 1] = "exception"

UpperOrLower(tok) ==
    tok \in {str("AND"), str("and"), str("OR"), str("or"), str("WITH"), str("with")}

\* C8 amended: the keywords are recognised in all-uppercase and all-lowercase
\* spelling only; such a token is never validated as an identifier, WITH or
\* with sends the next token that is not such a keyword to the exception set,
\* and any other spelling (And, With) is validated as an identifier.
C8_KeywordsUpperOrLower ==
    \A k \in Processed :
        LET tok == frame.licenses[k]
        IN  /\ UpperOrLower(tok) => frame.checked[k] \in {"skip", "with"}
            /\ (KeywordAnyCase(tok) /\ ~UpperOrLower(tok))
                   => frame.checked[k] \in {"license", "exception"}
            /\ (/\ tok \in {str("WITH"), str("with")} /\ k + 1 \in Processed
                /\ ~UpperOrLower(frame.licenses[k + 1]))
                   => frame.checked[k + 1] = "exception"

C8_Witness ==
    /\ pc = "tag_done"
    /\ cur_license = Join(<<str("MIT"), str("with"), str("E")>>)
    /\ frame.checked = <<"license", "with", "exception">>
    /\ result = Returned(0, <<>>)

\* C9: past an exception token the flag stays set only when the token leaves
\* a parenthesis open; a token that opens none, or opens and closes one
\* (net zero), clears it.
C9_FlagClearedUnlessParenLeftOpen ==
    (/\ frame # Idle /\ frame.i >= 1 /\ frame.checked[frame.i] = "exception"
     /\ frame.license_exception_flag)
        => LET tok == frame.licenses[frame.i]
           IN  tok[1] = "(" /\ tok[Len(tok)] # ")"

OnlySpaces(s) == \A k \in 1..Len(s) : s[k] = " "

\* C10: an expression of zero tokens (empty, or only spaces) returns 0
\* errors, and runs of spaces make no empty token and no failure.
C10_NoTokensNoFailure ==
    pc = "tag_done"
        => /\ result.exc = "none"
           /\ OnlySpaces(cur_license) => result = Returned(0, <<>>)

====
